---- MODULE Spec2Model ----
(***************************************************************************)
(* OLX listing watcher: the multi-owner bot (bot.py) and the single-filter *)
(* scraper (olx_scraper.py).  The model covers the seen-listings store,    *)
(* the filter registry, the page parser's identifier extraction, the       *)
(* checker thread's cycle and the command thread's add/remove handling,    *)
(* interleaved at the granularity of one store or network call per step.   *)
(***************************************************************************)
EXTENDS Integers, Sequences, FiniteSets, TLC

(* ------------------------------ bounds -------------------------------- *)

NumChats == 2
NumUrls == 2
NumIds == 2
MaxCards == 2
MaxFilterId == 2
MaxTime == 2
MaxSends == 2
MaxUpdates == 3

Chats == 1..NumChats
Urls == 1..NumUrls
\* card 0 is a card whose link carries no -ID<token>.html
Cards == 0..NumIds

(* --------------------------- text helpers ----------------------------- *)

Digit == <<"1", "2", "3", "4", "5", "6", "7", "8", "9">>

AlnumChars ==
    {"0", "1", "2", "3", "4", "5", "6", "7", "8", "9",
     "a", "b", "c", "d", "e", "f", "g", "h", "i", "j", "k", "l", "m",
     "n", "o", "p", "q", "r", "s", "t", "u", "v", "w", "x", "y", "z",
     "A", "B", "C", "D", "E", "F", "G", "H", "I", "J", "K", "L", "M",
     "N", "O", "P", "Q", "R", "S", "T", "U", "V", "W", "X", "Y", "Z"}

BASE_URL ==
    <<"h", "t", "t", "p", "s", ":", "/", "/", "w", "w", "w", ".",
      "o", "l", "x", ".", "u", "z">>

StartsWith(s, p) ==
    /\ Len(s) >= Len(p)
    /\ SubSeq(s, 1, Len(p)) = p

\* s has the text p at index i
HasAt(s, i, p) ==
    /\ i >= 1
    /\ i + Len(p) - 1 <= Len(s)
    /\ SubSeq(s, i, i + Len(p) - 1) = p

\* length of the longest run of [a-zA-Z0-9] starting at index i
RECURSIVE AlnumRun(_, _)
AlnumRun(s, i) ==
    IF i <= Len(s) /\ s[i] \in AlnumChars THEN 1 + AlnumRun(s, i + 1) ELSE 0

NoId == <<>>

\* re.search(r'-ID([a-zA-Z0-9]+)\.html', url): the leftmost index where the
\* pattern matches; the group is the whole alphanumeric run, which must be
\* followed by ".html" ("." is not alphanumeric, so no shorter run matches).
IdMatchAt(url, i) ==
    /\ HasAt(url, i, <<"-", "I", "D">>)
    /\ AlnumRun(url, i + 3) >= 1
    /\ HasAt(url, i + 3 + AlnumRun(url, i + 3), <<".", "h", "t", "m", "l">>)

extract_listing_id(url) ==
    IF \E i \in 1..Len(url) : IdMatchAt(url, i)
    THEN LET i == CHOOSE j \in 1..Len(url) :
                      /\ IdMatchAt(url, j)
                      /\ \A k \in 1..(j - 1) : ~IdMatchAt(url, k)
         IN SubSeq(url, i + 3, i + 2 + AlnumRun(url, i + 3))
    ELSE NoId

(* ------------------------- the source site ---------------------------- *)

RelHref(c) ==
    IF c = 0
    THEN <<"/", "d", "/", "k", "v", ".", "h", "t", "m", "l">>
    ELSE <<"/", "d", "/", "k", "v", "-", "I", "D", "x", Digit[c],
           ".", "h", "t", "m", "l">>

\* the href of card c as the page gives it: even cards carry an absolute link
CardHref(c) == IF c # 0 /\ c % 2 = 0 THEN BASE_URL \o RelHref(c) ELSE RelHref(c)

ListingIds == {extract_listing_id(CardHref(c)) : c \in Cards \ {0}}

DefaultTitle == "E'lon"
DefaultPrice == "Kelishiladi"

\* the loop body without "if not listing_id: continue"
ParseCardKeepAll(c) ==
    LET href == IF StartsWith(CardHref(c), <<"h", "t", "t", "p">>)
                THEN CardHref(c)
                ELSE BASE_URL \o CardHref(c)
    IN << [id |-> extract_listing_id(href), title |-> DefaultTitle,
           price |-> DefaultPrice, url |-> href] >>

\* one card of the page -> the listing dict, or nothing (lines 177-253 of
\* bot.py; the cards of the model carry a link and no text)
ParseCard(c) ==
    LET href == IF StartsWith(CardHref(c), <<"h", "t", "t", "p">>)
                THEN CardHref(c)
                ELSE BASE_URL \o CardHref(c)
        listing_id == extract_listing_id(href)
    IN IF listing_id = NoId
       THEN <<>>
       ELSE << [id |-> listing_id, title |-> DefaultTitle,
                price |-> DefaultPrice, url |-> href] >>

\* what each card parses to
ParsedCard == [c \in Cards |-> ParseCard(c)]

\* the loop over the cards of a page, in page order
RECURSIVE ParseCards(_)
ParseCards(cards) ==
    IF cards = <<>> THEN <<>>
    ELSE ParsedCard[Head(cards)] \o ParseCards(Tail(cards))

\* the ids of a sequence of listings
RECURSIVE IdsOf(_)
IdsOf(ls) == IF ls = <<>> THEN {} ELSE {Head(ls).id} \cup IdsOf(Tail(ls))

(* ------------------------------ store --------------------------------- *)

\* a test that finds nothing
is_seen_never(db, listing_id) == FALSE

\* SELECT 1 FROM seen_listings WHERE listing_id = ?
is_seen(db, listing_id) == \E r \in db : r.listing_id = listing_id

\* INSERT INTO seen_listings (listing_id, title, price, url), without the
\* conflict clause and without the primary key
InsertRow(db, listing_id, title, price, url, t) ==
    db \cup {[listing_id |-> listing_id, title |-> title, price |-> price,
              url |-> url, first_seen |-> t]}

\* a write that does not reach the table
mark_seen_lost(db, listing_id, title, price, url, t) == db

\* INSERT OR REPLACE: the row of the latest call takes the place of the old
mark_seen_replace(db, listing_id, title, price, url, t) ==
    InsertRow({r \in db : r.listing_id # listing_id}, listing_id, title, price, url, t)

\* INSERT OR IGNORE INTO seen_listings (listing_id, title, price, url);
\* listing_id TEXT PRIMARY KEY, first_seen DEFAULT CURRENT_TIMESTAMP
mark_seen(db, listing_id, title, price, url, t) ==
    IF \E r \in db : r.listing_id = listing_id
    THEN db
    ELSE InsertRow(db, listing_id, title, price, url, t)

\* a table without the UNIQUE(chat_id, url) constraint
add_filter_ok_always(rows, chat_id, url) == TRUE

\* INSERT INTO filter_urls (chat_id, url, name); UNIQUE(chat_id, url):
\* whether the insert succeeds (no sqlite3.IntegrityError)
add_filter_ok(rows, chat_id, url) ==
    \A r \in rows : ~(r.chat_id = chat_id /\ r.url = url)

\* id INTEGER PRIMARY KEY AUTOINCREMENT
add_filter(rows, last, chat_id, url) ==
    IF add_filter_ok(rows, chat_id, url)
    THEN rows \cup {[id |-> last + 1, chat_id |-> chat_id, url |-> url]}
    ELSE rows

\* the DELETE not committed: the row stays
remove_filter_kept(rows, chat_id, filter_id) == rows

\* DELETE FROM filter_urls WHERE id = ?
remove_filter_any_owner(rows, chat_id, filter_id) ==
    {r \in rows : r.id # filter_id}

\* DELETE FROM filter_urls WHERE id = ? AND chat_id = ?
remove_filter(rows, chat_id, filter_id) ==
    {r \in rows : ~(r.id = filter_id /\ r.chat_id = chat_id)}

\* what remove_filter returns: cursor.rowcount > 0
remove_filter_found(rows, chat_id, filter_id) ==
    Cardinality(rows \ remove_filter(rows, chat_id, filter_id)) > 0

\* the rows of a set in descending order of id
RECURSIVE ByIdDesc(_)
ByIdDesc(rows) ==
    IF rows = {} THEN <<>>
    ELSE LET top == CHOOSE r \in rows : \A q \in rows : q.id <= r.id
         IN <<top>> \o ByIdDesc(rows \ {top})

\* SELECT id, url, name, created_at FROM filter_urls WHERE chat_id = ?
\* ORDER BY id DESC
get_filters(rows, chat_id) == ByIdDesc({r \in rows : r.chat_id = chat_id})

\* every order a set of rows can come in
RECURSIVE RowOrders(_)
RowOrders(rows) ==
    IF rows = {} THEN {<<>>}
    ELSE UNION {{<<r>> \o s : s \in RowOrders(rows \ {r})} : r \in rows}

\* SELECT chat_id, url FROM filter_urls (no ORDER BY: any row order)
get_all_filters(rows) == RowOrders(rows)

\* chat_urls: the rows grouped by chat_id, chats in order of first
\* appearance, urls in row order; flattened to the visits of the two loops
RECURSIVE ChatOrder(_)
ChatOrder(fs) ==
    IF fs = <<>> THEN <<>>
    ELSE LET c == Head(fs).chat_id
             same(f) == f.chat_id = c
             other(f) == f.chat_id # c
         IN SelectSeq(fs, same) \o ChatOrder(SelectSeq(fs, other))

(* ------------------------------ state --------------------------------- *)

VARIABLES
    prog,           \* the program that runs: "bot" (bot.py), "scraper"
                    \* (olx_scraper.py), or "store" (the store on its own);
                    \* for bot.py also where main stands before the threads
                    \* run: "main" (line 466), "init" (line 479), "ready"
                    \* (line 482), and "exit" (returned at line 468)
    page,           \* the source site: url -> the cards its page shows now
    seen_listings,  \* table seen_listings: a set of rows
    filter_urls,    \* table filter_urls: set of rows [id, chat_id, url]
    last_id,        \* AUTOINCREMENT sequence of filter_urls
    now,            \* CURRENT_TIMESTAMP
    pc,             \* checker: "load", "fetch", "check", "send", "mark",
                    \* "sleep", and "dead" once the loop has ended
    chat_urls,      \* check_all_urls: the filter rows visited this cycle
    pos,            \* index into chat_urls
    listings,       \* the listings fetched for the current url
    idx,            \* index into listings
    send_ok,        \* what the last send_telegram / send_message returned
    cpc,            \* command thread: "idle", "fetch", "mark"
    c_chat,         \* add_filter_url: chat_id
    c_url,          \* add_filter_url: url
    c_listings,     \* add_filter_url: listings
    c_idx,          \* add_filter_url: index into listings
    notified,       \* history: listing_id -> the chats a notification for it
                    \* was dispatched to, in order (the first MaxSends)
    marked,         \* history: ids for which a mark_seen call has returned
    first_call,     \* history: the rows the first mark_seen call of each id
                    \* was given, stamped with the time of that call
    raised          \* history: the last round of the loop ended in an
                    \* exception that the loop's handler caught

\* history kept by the observers below, each only under the specifications
\* that name it
VARIABLES
    quiet,          \* how many runs in a row, the current one included,
                    \* fetched every page as it is, with no other operation
                    \* since the first of them began (0..2)
    all_ok,         \* olx_scraper.py: how many of those runs had every
                    \* dispatch accepted (0..2)
    cyc_new,        \* the ids not seen when the current run began
    cyc_sent,       \* listing_id -> dispatches in the current run
    backlog,        \* ids that were on a filter's page when the filter was
                    \* created and had not been notified before
    late,           \* <<listing_id, filter id>>: the listing came onto the
                    \* site, on the page of that filter, after the filter's
                    \* add_filter_url had returned; kept while the filter is
                    \* registered and the listing has not been notified
    cyc_fetched,    \* ids of the listings of the urls this cycle is done with
    cyc_left,       \* how many urls this cycle loaded and has not fetched
    cyc_failed,     \* whether a url of this cycle ended in a failure
    url_unseen,     \* ids the is_seen test found unseen for the current url
    url_sent,       \* listing_id -> dispatches while at the current url
    last_msg,       \* the message handle_message was called with in the
                    \* step that led here: [chat_id, text], or NoMsg
    cyc_owners,     \* <<chat_id, listing_id>>: the owner had, in the filter
                    \* set this cycle loaded, a filter whose page as fetched in
                    \* this cycle showed the listing
    cyc_loaded      \* <<chat_id, url>>: the rows of the registry when this
                    \* cycle loaded its filters

base_vars ==
    <<prog, page, seen_listings, filter_urls, last_id, now, pc, chat_urls, pos,
      listings, idx, send_ok, cpc, c_chat, c_url, c_listings, c_idx, notified,
      marked, first_call, raised>>

run_vars == <<quiet, all_ok, cyc_new, cyc_sent>>
add_vars == <<backlog, late>>
cyc_vars == <<cyc_fetched, cyc_left, cyc_failed, url_unseen, url_sent>>

msg_vars == <<last_msg>>
own_vars == <<cyc_owners, cyc_loaded>>

\* bot.py line 28: the access token, read from the environment at import
VARIABLES BOT_TOKEN

env_vars == <<BOT_TOKEN>>

\* history of the removals of filters
VARIABLES
    removed,        \* <<chat_id, url>>: a /remove of that owner deleted the
                    \* row of that filter (remove_filter returned True) and the
                    \* owner has not added the url again since
    removed_at_load \* what removed was when the current cycle loaded its
                    \* filters

gone_vars == <<removed, removed_at_load>>

\* bot.py: polling_loop and the updates Telegram holds for the bot
VARIABLES
    updates,        \* the updates the server holds unconfirmed, in the order
                    \* they came: [update_id, chat_id, text]; text <<>> for an
                    \* update without a message text
    next_uid,       \* the update_id the server gives the next update
    last_update_id, \* polling_loop's local of that name (line 380)
    batch,          \* what is left of data["result"] in the loop of line
                    \* 392, the update at hand first
    ppc,            \* where polling_loop stands: "get" (line 384), "next"
                    \* (line 392), "handle" (line 402), "run" (inside
                    \* handle_message), "pause" (line 406)
    handled,        \* history: the update_ids handle_message was called
                    \* for, in the order of the calls
    poll_failed          \* history: the update_ids whose handling raised

poll_vars == <<updates, next_uid, last_update_id, batch, ppc, handled, poll_failed>>

vars == <<base_vars, run_vars, add_vars, cyc_vars, msg_vars, own_vars, env_vars, gone_vars, poll_vars>>

store_vars == <<seen_listings, filter_urls, last_id, now>>
checker_vars == <<pc, chat_urls, pos, listings, idx, send_ok>>
cmd_vars == <<cpc, c_chat, c_url, c_listings, c_idx>>
hist_vars == <<notified, marked, first_call, raised>>

NoSends == [i \in ListingIds |-> 0]

NoMsg == [chat_id |-> 0, text |-> <<>>]

\* the token of a deployment that has one
SetToken == <<"t">>
\* what the environment can hold: no token (the default ""), or one
Tokens == {<<>>, SetToken}

InitCommon ==
    /\ page = [u \in Urls |-> <<>>]
    /\ seen_listings = {}
    /\ filter_urls = {}
    /\ last_id = 0
    /\ now = 0
    /\ pc = "load"
    /\ chat_urls = <<>>
    /\ pos = 1
    /\ listings = <<>>
    /\ idx = 1
    /\ send_ok = TRUE
    /\ cpc = "idle"
    /\ c_chat = 1
    /\ c_url = 1
    /\ c_listings = <<>>
    /\ c_idx = 1
    /\ notified = [i \in ListingIds |-> <<>>]
    /\ marked = {}
    /\ first_call = {}
    /\ raised = FALSE
    /\ quiet = 0
    /\ all_ok = 0
    /\ cyc_new = {}
    /\ cyc_sent = NoSends
    /\ backlog = {}
    /\ late = {}
    /\ cyc_fetched = {}
    /\ cyc_left = 0
    /\ cyc_failed = FALSE
    /\ url_unseen = {}
    /\ url_sent = NoSends
    /\ last_msg = NoMsg
    /\ cyc_loaded = {}
    /\ removed = {}
    /\ updates = <<>>
    /\ next_uid = 1
    /\ last_update_id = 0
    /\ batch = <<>>
    /\ ppc = "get"
    /\ handled = <<>>
    /\ poll_failed = {}
    /\ removed_at_load = {}
    /\ cyc_owners = {}

Init ==
    /\ prog \in {"bot", "scraper"}
    /\ BOT_TOKEN = SetToken
    /\ InitCommon

\* the history of dispatches, kept to the first MaxSends per listing
Dispatched(h, listing_id, chat_id) ==
    IF Len(h[listing_id]) < MaxSends
    THEN [h EXCEPT ![listing_id] = Append(@, chat_id)]
    ELSE h

\* the history of a mark_seen call that has returned
MarkReturned(listing_id, title, price, url) ==
    /\ marked' = marked \cup {listing_id}
    /\ first_call' =
           IF listing_id \in marked THEN first_call
           ELSE InsertRow(first_call, listing_id, title, price, url, now)

(* --------------------------- the source site -------------------------- *)

RECURSIVE SumLen(_, _)
SumLen(f, S) ==
    IF S = {} THEN 0
    ELSE LET u == CHOOSE v \in S : TRUE IN Len(f[u]) + SumLen(f, S \ {u})

CardsOnSite == SumLen(page, Urls)

\* the url the scraper's build_url() gives for its configuration
ScraperUrl == 1
\* the chat the scraper's TelegramNotifier is configured with
ScraperChat == 1

\* a seller publishes a listing: the card appears on a search page
Publish(u, c) ==
    /\ prog = "scraper" => u = ScraperUrl
    /\ CardsOnSite < MaxCards
    /\ page' = [page EXCEPT ![u] = Append(@, c)]
    /\ UNCHANGED <<prog, store_vars, checker_vars, cmd_vars, hist_vars>>

\* what one call of fetch_listings can return: the parsed page, or [] on a
\* transport error (requests.RequestException)
fetch_listings(u) == {ParseCards(page[u]), <<>>}

NoTitle == "Sarlavhasiz"
NoPrice == "Narx ko'rsatilmagan"

\* olx_scraper.py, fetch_listings: the same walk over the cards, with the
\* scraper's texts for a card without title and price (lines 205, 209)
scraper_fetch_listings ==
    LET ls == ParseCards(page[ScraperUrl])
    IN {[k \in 1..Len(ls) |-> [ls[k] EXCEPT !.title = NoTitle, !.price = NoPrice]],
        <<>>}

(* ------------------------ bot.py: checker thread ---------------------- *)

\* the end of the body of "for url in urls": time.sleep(1), then the next
\* url or the end of check_all_urls
NextUrl ==
    /\ listings' = <<>>
    /\ idx' = 1
    /\ send_ok' = TRUE
    /\ IF pos + 1 > Len(chat_urls)
       THEN pc' = "sleep" /\ pos' = 1 /\ chat_urls' = <<>>
       ELSE pc' = "fetch" /\ pos' = pos + 1 /\ chat_urls' = chat_urls

\* an exception that leaves check_all_urls: the rest of the cycle is skipped
\* and the exception reaches checker_loop
LeaveCycle ==
    /\ listings' = <<>>
    /\ idx' = 1
    /\ send_ok' = TRUE
    /\ pc' = "sleep"
    /\ pos' = 1
    /\ chat_urls' = <<>>

\* no handler around the body of the url loop: the exception leaves
\* check_all_urls
on_check_error_reraised == LeaveCycle

\* lines 447-449: except Exception: logger.error(...), then time.sleep(1)
on_check_error == NextUrl

\* no handler in checker_loop: the exception ends the thread
on_checker_error_fatal ==
    /\ listings' = <<>>
    /\ idx' = 1
    /\ send_ok' = TRUE
    /\ pc' = "dead"
    /\ pos' = 1
    /\ chat_urls' = <<>>

\* checker_loop, lines 458-460: except Exception: logger.error(...), then
\* time.sleep(CHECK_INTERVAL)
on_checker_error == LeaveCycle

\* the for loop over listings moves on (after time.sleep(0.5) or a skip)
NextListing ==
    IF idx + 1 > Len(listings)
    THEN NextUrl
    ELSE /\ idx' = idx + 1
         /\ pc' = "check"
         /\ send_ok' = TRUE
         /\ UNCHANGED <<chat_urls, pos, listings>>

\* check_all_urls, lines 413-420
check_load ==
    /\ prog = "bot"
    /\ pc = "load"
    /\ \E fs \in get_all_filters(filter_urls) :
          /\ chat_urls' = ChatOrder(fs)
          /\ pc' = IF fs = <<>> THEN "sleep" ELSE "fetch"
    /\ pos' = 1
    /\ listings' = <<>>
    /\ idx' = 1
    /\ raised' = FALSE
    /\ UNCHANGED <<prog, page, store_vars, send_ok, cmd_vars, notified, marked,
                   first_call>>

\* a fetch that gives no listing ends the whole cycle
check_fetch_fatal ==
    /\ prog = "bot"
    /\ pc = "fetch"
    /\ \E ls \in fetch_listings(chat_urls[pos].url) :
          IF ls = <<>>
          THEN LeaveCycle
          ELSE /\ listings' = ls
               /\ idx' = 1
               /\ pc' = "check"
               /\ UNCHANGED <<chat_urls, pos, send_ok>>
    /\ UNCHANGED <<prog, page, store_vars, cmd_vars, hist_vars>>

\* line 425: listings = scraper.fetch_listings(url)
check_fetch ==
    /\ prog = "bot"
    /\ pc = "fetch"
    /\ \E ls \in fetch_listings(chat_urls[pos].url) :
          IF ls = <<>>
          THEN NextUrl
          ELSE /\ listings' = ls
               /\ idx' = 1
               /\ pc' = "check"
               /\ UNCHANGED <<chat_urls, pos, send_ok>>
    /\ UNCHANGED <<prog, page, store_vars, cmd_vars, hist_vars>>

\* line 425 when fetch_listings raises (an exception of the JSON-LD pass that
\* lines 171-172 do not catch)
check_fetch_raises ==
    /\ prog = "bot"
    /\ pc = "fetch"
    /\ on_check_error
    /\ UNCHANGED <<prog, page, store_vars, cmd_vars, hist_vars>>

\* lines 426-427: if not is_seen(listing['id'])
check_is_seen ==
    /\ prog = "bot"
    /\ pc = "check"
    /\ IF is_seen(seen_listings, listings[idx].id)
       THEN NextListing
       ELSE /\ pc' = "send"
            /\ UNCHANGED <<chat_urls, pos, listings, idx, send_ok>>
    /\ UNCHANGED <<prog, page, store_vars, cmd_vars, hist_vars>>

\* the dispatch goes to the owner of the first filter of the cycle
check_send_first_owner ==
    /\ prog = "bot"
    /\ pc = "send"
    /\ \E ok \in BOOLEAN : send_ok' = ok
    /\ notified' = Dispatched(notified, listings[idx].id, chat_urls[1].chat_id)
    /\ pc' = "mark"
    /\ UNCHANGED <<prog, page, store_vars, chat_urls, pos, listings, idx,
                   cmd_vars, marked, first_call, raised>>

\* line 444: send_telegram(chat_id, message); True iff the API accepted it
check_send ==
    /\ prog = "bot"
    /\ pc = "send"
    /\ \E ok \in BOOLEAN : send_ok' = ok
    /\ notified' = Dispatched(notified, listings[idx].id, chat_urls[pos].chat_id)
    /\ pc' = "mark"
    /\ UNCHANGED <<prog, page, store_vars, chat_urls, pos, listings, idx,
                   cmd_vars, marked, first_call, raised>>

\* the write of line 445 lost (not committed)
check_mark_store_lost(db, l, ok, t) == db

\* line 445, after a dispatch that returned ok: what the store becomes
check_mark_store(db, l, ok, t) == mark_seen(db, l.id, l.title, l.price, l.url, t)

\* the marks of a url written together after its last listing
check_mark_late ==
    /\ prog = "bot"
    /\ pc = "mark"
    /\ seen_listings' =
           IF idx + 1 > Len(listings)
           THEN LET all[k \in 0..Len(listings)] ==
                        IF k = 0 THEN seen_listings
                        ELSE mark_seen(all[k - 1], listings[k].id, listings[k].title,
                                       listings[k].price, listings[k].url, now)
                IN all[Len(listings)]
           ELSE seen_listings
    /\ MarkReturned(listings[idx].id, listings[idx].title, listings[idx].price,
                    listings[idx].url)
    /\ NextListing
    /\ UNCHANGED <<prog, page, filter_urls, last_id, now, cmd_vars, notified, raised>>

\* lines 445-446: mark_seen(...), time.sleep(0.5)
check_mark ==
    /\ prog = "bot"
    /\ pc = "mark"
    /\ seen_listings' = check_mark_store(seen_listings, listings[idx], send_ok, now)
    /\ MarkReturned(listings[idx].id, listings[idx].title, listings[idx].price,
                    listings[idx].url)
    /\ NextListing
    /\ UNCHANGED <<prog, page, filter_urls, last_id, now, cmd_vars, notified, raised>>

\* checker_loop, line 460: time.sleep(CHECK_INTERVAL), then the next cycle
checker_sleep ==
    /\ prog = "bot"
    /\ pc = "sleep"
    /\ pc' = "load"
    /\ UNCHANGED <<prog, page, store_vars, chat_urls, pos, listings, idx,
                   send_ok, cmd_vars, hist_vars>>

\* get_all_filters raises (sqlite3.Error): check_all_urls raises at line 413
check_load_raises ==
    /\ prog = "bot"
    /\ pc = "load"
    /\ on_checker_error
    /\ raised' = TRUE
    /\ UNCHANGED <<prog, page, store_vars, cmd_vars, notified, marked, first_call>>

\* is_seen (line 427) or mark_seen (line 445) raises (sqlite3.Error)
check_store_raises ==
    /\ prog = "bot"
    /\ pc \in {"check", "mark"}
    /\ on_check_error
    /\ UNCHANGED <<prog, page, store_vars, cmd_vars, hist_vars>>

(* ------------------------ bot.py: command thread ---------------------- *)

\* the text of filter url u; url 0 is a link to another site
UrlText(u) ==
    IF u = 0
    THEN <<"h", "t", "t", "p", "s", ":", "/", "/", "o", "l", "x", ".", "k", "z">>
    ELSE BASE_URL \o <<"/", "q", "-", Digit[u]>>

\* add_filter_url returns (or is left by an exception, lines 404-406)
CmdDone ==
    /\ cpc' = "idle"
    /\ c_chat' = 1
    /\ c_url' = 1
    /\ c_listings' = <<>>
    /\ c_idx' = 1

\* add_filter_url going on to lines 365-370 whatever add_filter returned
cmd_add_then_backlog(chat_id, u) ==
    /\ prog = "bot"
    /\ cpc = "idle"
    /\ IF ~StartsWith(UrlText(u), BASE_URL)
       THEN UNCHANGED <<filter_urls, last_id, cmd_vars>>
       ELSE IF ~add_filter_ok(filter_urls, chat_id, u)
       THEN /\ cpc' = "fetch"
            /\ c_chat' = chat_id
            /\ c_url' = u
            /\ UNCHANGED <<filter_urls, last_id, c_listings, c_idx>>
       ELSE /\ last_id < MaxFilterId
            /\ filter_urls' = add_filter(filter_urls, last_id, chat_id, u)
            /\ last_id' = last_id + 1
            /\ cpc' = "fetch"
            /\ c_chat' = chat_id
            /\ c_url' = u
            /\ UNCHANGED <<c_listings, c_idx>>
    /\ UNCHANGED <<prog, page, seen_listings, now, checker_vars, hist_vars>>

\* add_filter_url without the test of lines 359-361
cmd_add_any_origin(chat_id, u) ==
    /\ prog = "bot"
    /\ cpc = "idle"
    /\ IF ~add_filter_ok(filter_urls, chat_id, u)
       THEN UNCHANGED <<filter_urls, last_id, cmd_vars>>
       ELSE /\ last_id < MaxFilterId
            /\ filter_urls' = add_filter(filter_urls, last_id, chat_id, u)
            /\ last_id' = last_id + 1
            /\ cpc' = "fetch"
            /\ c_chat' = chat_id
            /\ c_url' = u
            /\ UNCHANGED <<c_listings, c_idx>>
    /\ UNCHANGED <<prog, page, seen_listings, now, checker_vars, hist_vars>>

\* add_filter_url, lines 359-365 and 371-372: the origin test and add_filter
cmd_add(chat_id, u) ==
    /\ prog = "bot"
    /\ cpc = "idle"
    /\ IF ~StartsWith(UrlText(u), BASE_URL)
       THEN UNCHANGED <<filter_urls, last_id, cmd_vars>>
       ELSE IF ~add_filter_ok(filter_urls, chat_id, u)
       THEN UNCHANGED <<filter_urls, last_id, cmd_vars>>
       ELSE /\ last_id < MaxFilterId
            /\ filter_urls' = add_filter(filter_urls, last_id, chat_id, u)
            /\ last_id' = last_id + 1
            /\ cpc' = "fetch"
            /\ c_chat' = chat_id
            /\ c_url' = u
            /\ UNCHANGED <<c_listings, c_idx>>
    /\ UNCHANGED <<prog, page, seen_listings, now, checker_vars, hist_vars>>

\* add_filter_url, line 367: listings = scraper.fetch_listings(url); with no
\* listing, line 370 follows at once
cmd_fetch ==
    /\ prog = "bot"
    /\ cpc = "fetch"
    /\ \E ls \in fetch_listings(c_url) :
          IF ls = <<>>
          THEN CmdDone
          ELSE /\ c_listings' = ls
               /\ c_idx' = 1
               /\ cpc' = "mark"
               /\ UNCHANGED <<c_chat, c_url>>
    /\ UNCHANGED <<prog, page, store_vars, checker_vars, hist_vars>>

\* line 367 when fetch_listings raises: add_filter_url is left through the
\* handler of polling_loop (lines 404-406); the filter row stays
cmd_fetch_raises ==
    /\ prog = "bot"
    /\ cpc = "fetch"
    /\ CmdDone
    /\ UNCHANGED <<prog, page, store_vars, checker_vars, hist_vars>>

\* add_filter_url, lines 368-370: mark_seen for the next listing; after the
\* last one the reply of line 370
cmd_mark ==
    /\ prog = "bot"
    /\ cpc = "mark"
    /\ seen_listings' =
           mark_seen(seen_listings, c_listings[c_idx].id, c_listings[c_idx].title,
                     c_listings[c_idx].price, c_listings[c_idx].url, now)
    /\ MarkReturned(c_listings[c_idx].id, c_listings[c_idx].title,
                    c_listings[c_idx].price, c_listings[c_idx].url)
    /\ IF c_idx + 1 > Len(c_listings)
       THEN CmdDone
       ELSE /\ c_idx' = c_idx + 1
            /\ UNCHANGED <<cpc, c_chat, c_url, c_listings>>
    /\ UNCHANGED <<prog, page, filter_urls, last_id, now, checker_vars, notified, raised>>

\* mark_seen raises in add_filter_url (sqlite3.Error), lines 404-406
cmd_store_raises ==
    /\ prog = "bot"
    /\ cpc = "mark"
    /\ CmdDone
    /\ UNCHANGED <<prog, page, store_vars, checker_vars, hist_vars>>

\* handle_message, lines 336-346: /remove <id>
cmd_remove(chat_id, filter_id) ==
    /\ prog = "bot"
    /\ cpc = "idle"
    /\ filter_urls' = remove_filter(filter_urls, chat_id, filter_id)
    /\ UNCHANGED <<prog, page, seen_listings, last_id, now, checker_vars,
                   cmd_vars, hist_vars>>

(* ------------------------- olx_scraper.py: run ------------------------ *)

\* process_listings returns (lines 262-265)
ProcessDone ==
    /\ listings' = <<>>
    /\ idx' = 1
    /\ send_ok' = TRUE
    /\ pc' = "sleep"

\* run, lines 275-276: except Exception: logger.error(...)
on_run_error == ProcessDone

\* the for loop of process_listings moves on
ProcessNextListing ==
    IF idx + 1 > Len(listings)
    THEN ProcessDone
    ELSE /\ idx' = idx + 1
         /\ pc' = "check"
         /\ send_ok' = TRUE
         /\ UNCHANGED listings

\* process_listings, line 243: listings = self.fetch_listings()
process_fetch ==
    /\ prog = "scraper"
    /\ pc = "load"
    /\ \E ls \in scraper_fetch_listings :
          IF ls = <<>>
          THEN ProcessDone
          ELSE /\ listings' = ls
               /\ idx' = 1
               /\ pc' = "check"
               /\ UNCHANGED send_ok
    /\ raised' = FALSE
    /\ UNCHANGED <<prog, page, store_vars, chat_urls, pos, cmd_vars, notified,
                   marked, first_call>>

\* lines 246-247: if not self.db.is_seen(listing['id'])
process_is_seen ==
    /\ prog = "scraper"
    /\ pc = "check"
    /\ IF is_seen(seen_listings, listings[idx].id)
       THEN ProcessNextListing
       ELSE /\ pc' = "send"
            /\ UNCHANGED <<listings, idx, send_ok>>
    /\ UNCHANGED <<prog, page, store_vars, chat_urls, pos, cmd_vars, hist_vars>>

\* the result of send_message not tested: lines 253-260 run in any case
process_send_then_mark ==
    /\ prog = "scraper"
    /\ pc = "send"
    /\ notified' = Dispatched(notified, listings[idx].id, ScraperChat)
    /\ \E ok \in BOOLEAN : send_ok' = ok
    /\ pc' = "mark"
    /\ UNCHANGED <<listings, idx>>
    /\ UNCHANGED <<prog, page, store_vars, chat_urls, pos, cmd_vars, marked,
                   first_call, raised>>

\* lines 251-252: if self.notifier.send_message(message); a False result
\* skips lines 253-260 and the loop goes to its next listing
process_send ==
    /\ prog = "scraper"
    /\ pc = "send"
    /\ notified' = Dispatched(notified, listings[idx].id, ScraperChat)
    /\ \E ok \in BOOLEAN :
          /\ send_ok' = ok
          /\ IF ok
             THEN /\ pc' = "mark"
                  /\ UNCHANGED <<listings, idx>>
             ELSE IF idx + 1 > Len(listings)
             THEN /\ listings' = <<>>
                  /\ idx' = 1
                  /\ pc' = "sleep"
             ELSE /\ idx' = idx + 1
                  /\ pc' = "check"
                  /\ UNCHANGED listings
    /\ UNCHANGED <<prog, page, store_vars, chat_urls, pos, cmd_vars, marked,
                   first_call, raised>>

\* lines 253-260: self.db.mark_seen(...), time.sleep(1)
process_mark ==
    /\ prog = "scraper"
    /\ pc = "mark"
    /\ seen_listings' =
           mark_seen(seen_listings, listings[idx].id, listings[idx].title,
                     listings[idx].price, listings[idx].url, now)
    /\ MarkReturned(listings[idx].id, listings[idx].title, listings[idx].price,
                    listings[idx].url)
    /\ ProcessNextListing
    /\ UNCHANGED <<prog, page, filter_urls, last_id, now, chat_urls, pos,
                   cmd_vars, notified, raised>>

\* is_seen (line 247) or mark_seen (line 253) raises (sqlite3.Error): the
\* exception leaves process_listings and is caught in run
process_store_raises ==
    /\ prog = "scraper"
    /\ pc \in {"check", "mark"}
    /\ on_run_error
    /\ raised' = TRUE
    /\ UNCHANGED <<prog, page, store_vars, chat_urls, pos, cmd_vars, notified,
                   marked, first_call>>

\* run, lines 278-279: time.sleep(interval), then the next round
scraper_sleep ==
    /\ prog = "scraper"
    /\ pc = "sleep"
    /\ pc' = "load"
    /\ UNCHANGED <<prog, page, store_vars, chat_urls, pos, listings, idx,
                   send_ok, cmd_vars, hist_vars>>

(* ------------------------- the store on its own ----------------------- *)

Titles == {DefaultTitle, NoTitle}
Prices == {DefaultPrice, NoPrice}
ListingUrls == {BASE_URL \o RelHref(c) : c \in Cards \ {0}}

\* a caller hands a listing to mark_seen; c_listings keeps the listing of
\* the last call
store_mark(listing_id, title, price, url) ==
    /\ prog = "store"
    /\ seen_listings' = mark_seen(seen_listings, listing_id, title, price, url, now)
    /\ MarkReturned(listing_id, title, price, url)
    /\ c_listings' = << [id |-> listing_id, title |-> title, price |-> price,
                         url |-> url] >>
    /\ UNCHANGED <<prog, page, filter_urls, last_id, now, checker_vars, cpc,
                   c_chat, c_url, c_idx, notified, raised>>

\* CURRENT_TIMESTAMP moves on
Tick ==
    /\ prog = "store"
    /\ now < MaxTime
    /\ now' = now + 1
    /\ UNCHANGED <<prog, page, seen_listings, filter_urls, last_id,
                   checker_vars, cmd_vars, hist_vars>>

(* ----------------------------- the program --------------------------- *)

\* no observer takes part
Unobserved == UNCHANGED <<run_vars, add_vars, cyc_vars, msg_vars, own_vars, env_vars, gone_vars, poll_vars>>

\* bot.py: the checker thread and the command thread (main, lines 480-485)
\* beside the sellers of the site; olx_scraper.py: the run loop
Next ==
    \/ check_load /\ Unobserved
    \/ check_fetch /\ Unobserved
    \/ check_fetch_raises /\ Unobserved
    \/ check_is_seen /\ Unobserved
    \/ check_send /\ Unobserved
    \/ check_mark /\ Unobserved
    \/ checker_sleep /\ Unobserved
    \/ \E chat_id \in Chats, u \in Urls \cup {0} : cmd_add(chat_id, u) /\ Unobserved
    \/ cmd_fetch /\ Unobserved
    \/ cmd_fetch_raises /\ Unobserved
    \/ cmd_mark /\ Unobserved
    \/ \E chat_id \in Chats, f \in 1..MaxFilterId :
          cmd_remove(chat_id, f) /\ Unobserved
    \/ process_fetch /\ Unobserved
    \/ process_is_seen /\ Unobserved
    \/ process_send /\ Unobserved
    \/ process_mark /\ Unobserved
    \/ scraper_sleep /\ Unobserved
    \/ \E u \in Urls, c \in Cards : Publish(u, c) /\ Unobserved

Spec == Init /\ [][Next]_vars

(* ------------------------- observer: the runs ------------------------- *)

SeenIds == {r.listing_id : r \in seen_listings}

\* a filter whose add_filter_url has not returned yet
AddInProgress(f) == cpc # "idle" /\ f.chat_id = c_chat /\ f.url = c_url

\* the ids on the pages the program watches
OnPages ==
    IF prog = "scraper"
    THEN IdsOf(ParseCards(page[ScraperUrl]))
    ELSE UNION {IdsOf(ParseCards(page[r.url])) : r \in filter_urls}

\* something other than the run happened, or a page did not come as it is
RunReset ==
    /\ quiet' = 0
    /\ all_ok' = 0
    /\ cyc_new' = {}
    /\ cyc_sent' = NoSends

\* a run begins
RunBegin ==
    /\ quiet' = IF quiet = 0 THEN 1 ELSE 2
    /\ all_ok' = IF prog # "scraper" THEN 0 ELSE IF all_ok >= 1 THEN 2 ELSE 1
    /\ cyc_new' = ListingIds \ SeenIds
    /\ cyc_sent' = NoSends

\* the fetch of url u gave the page as it is
FetchedAsIs(u) == ParseCards(page[u]) = <<>> \/ Len(listings') = Len(ParseCards(page[u]))

RunFetch ==
    IF FetchedAsIs(chat_urls[pos].url) THEN UNCHANGED run_vars ELSE RunReset

RunProcessFetch == IF FetchedAsIs(ScraperUrl) THEN RunBegin ELSE RunReset

\* a dispatch; in olx_scraper.py a refused one leaves pc away from "mark"
RunSend ==
    /\ cyc_sent' =
           IF quiet >= 1 /\ cyc_sent[listings[idx].id] < MaxSends
           THEN [cyc_sent EXCEPT ![listings[idx].id] = @ + 1]
           ELSE cyc_sent
    /\ all_ok' = IF prog = "scraper" /\ pc' # "mark" THEN 0 ELSE all_ok
    /\ UNCHANGED <<quiet, cyc_new>>

\* a step of the command thread or of a seller, if it changed anything
RunOther ==
    IF page' # page \/ filter_urls' # filter_urls \/ seen_listings' # seen_listings
       \/ cpc # "idle" \/ cpc' # "idle"
    THEN RunReset
    ELSE UNCHANGED run_vars

RunsOnly == UNCHANGED <<add_vars, cyc_vars, msg_vars, own_vars, env_vars, gone_vars, poll_vars>>

NextRuns ==
    \/ check_load /\ RunBegin /\ RunsOnly
    \/ check_fetch /\ RunFetch /\ RunsOnly
    \/ check_fetch_raises /\ RunFetch /\ RunsOnly
    \/ check_is_seen /\ UNCHANGED run_vars /\ RunsOnly
    \/ check_send /\ RunSend /\ RunsOnly
    \/ check_mark /\ UNCHANGED run_vars /\ RunsOnly
    \/ checker_sleep /\ UNCHANGED run_vars /\ RunsOnly
    \/ \E chat_id \in Chats, u \in Urls \cup {0} :
          cmd_add(chat_id, u) /\ RunOther /\ RunsOnly
    \/ cmd_fetch /\ RunOther /\ RunsOnly
    \/ cmd_fetch_raises /\ RunOther /\ RunsOnly
    \/ cmd_mark /\ RunOther /\ RunsOnly
    \/ \E chat_id \in Chats, f \in 1..MaxFilterId :
          cmd_remove(chat_id, f) /\ RunOther /\ RunsOnly
    \/ process_fetch /\ RunProcessFetch /\ RunsOnly
    \/ process_is_seen /\ UNCHANGED run_vars /\ RunsOnly
    \/ process_send /\ RunSend /\ RunsOnly
    \/ process_mark /\ UNCHANGED run_vars /\ RunsOnly
    \/ scraper_sleep /\ UNCHANGED run_vars /\ RunsOnly
    \/ \E u \in Urls, c \in Cards : Publish(u, c) /\ RunOther /\ RunsOnly

SpecRuns == Init /\ [][NextRuns]_vars

(* ---------------------- observer: added filters ----------------------- *)

InitBot == prog = "bot" /\ BOT_TOKEN = SetToken /\ InitCommon

\* ids on some page of the site
OnSite == UNION {IdsOf(ParseCards(page[u])) : u \in Urls}

\* add_filter_url created the filter: the listings its page shows now
AddBegin ==
    /\ backlog' =
           IF cpc' = "fetch"
           THEN backlog \cup {i \in IdsOf(ParseCards(page[c_url'])) : notified[i] = <<>>}
           ELSE backlog
    /\ UNCHANGED late

\* a listing comes onto the site, on the page of filters that are in place
AddPublish(u, c) ==
    /\ late' =
           late \cup
           {<<i, f.id>> :
               i \in {j \in IdsOf(ParsedCard[c]) :
                        j \notin OnSite /\ j \notin SeenIds /\ notified[j] = <<>>},
               f \in {g \in filter_urls : g.url = u /\ ~AddInProgress(g)}}
    /\ UNCHANGED backlog

\* a listing is dispatched: it is late no more
AddSend ==
    /\ late' = {o \in late : o[1] # listings[idx].id}
    /\ UNCHANGED backlog

\* a filter is removed
AddRemove ==
    /\ late' = {o \in late : \E g \in filter_urls' : g.id = o[2]}
    /\ UNCHANGED backlog

AddsOnly == UNCHANGED <<run_vars, cyc_vars, msg_vars, own_vars, env_vars, gone_vars, poll_vars>>

NextAdds ==
    \/ check_load /\ UNCHANGED add_vars /\ AddsOnly
    \/ check_fetch /\ UNCHANGED add_vars /\ AddsOnly
    \/ check_fetch_raises /\ UNCHANGED add_vars /\ AddsOnly
    \/ check_is_seen /\ UNCHANGED add_vars /\ AddsOnly
    \/ check_send /\ AddSend /\ AddsOnly
    \/ check_mark /\ UNCHANGED add_vars /\ AddsOnly
    \/ checker_sleep /\ UNCHANGED add_vars /\ AddsOnly
    \/ \E chat_id \in Chats, u \in Urls \cup {0} :
          cmd_add(chat_id, u) /\ AddBegin /\ AddsOnly
    \/ cmd_fetch /\ UNCHANGED add_vars /\ AddsOnly
    \/ cmd_fetch_raises /\ UNCHANGED add_vars /\ AddsOnly
    \/ cmd_mark /\ UNCHANGED add_vars /\ AddsOnly
    \/ \E chat_id \in Chats, f \in 1..MaxFilterId :
          cmd_remove(chat_id, f) /\ AddRemove /\ AddsOnly
    \/ \E u \in Urls, c \in Cards : Publish(u, c) /\ AddPublish(u, c) /\ AddsOnly

SpecAdds == InitBot /\ [][NextAdds]_vars

(* ------------------------ observer: the cycle ------------------------- *)

\* the checker is done with the current url: its listings are behind it
CycLeave(failed) ==
    /\ cyc_fetched' =
           IF pc' = "sleep" THEN {}
           ELSE IF failed THEN cyc_fetched
           ELSE cyc_fetched \cup IdsOf(listings)
    /\ cyc_failed' = (cyc_failed \/ failed)
    /\ url_unseen' = {}
    /\ url_sent' = NoSends
    /\ UNCHANGED cyc_left

\* check_all_urls has loaded its urls
CycLoad ==
    /\ cyc_fetched' = {}
    /\ cyc_left' = Len(chat_urls')
    /\ cyc_failed' = FALSE
    /\ url_unseen' = {}
    /\ url_sent' = NoSends

\* check_all_urls raised before its first url
CycLoadRaises ==
    /\ cyc_fetched' = {}
    /\ cyc_left' = 0
    /\ cyc_failed' = FALSE
    /\ url_unseen' = {}
    /\ url_sent' = NoSends

\* a url is fetched; the fetch failed if the page has listings and none came
CycFetch ==
    /\ cyc_left' = cyc_left - 1
    /\ cyc_failed' =
           (cyc_failed \/ (ParseCards(page[chat_urls[pos].url]) # <<>> /\ pc' # "check"))
    /\ UNCHANGED <<cyc_fetched, url_unseen, url_sent>>

\* the is_seen test of a listing
CycTest ==
    IF pc' = "send"
    THEN /\ url_unseen' = url_unseen \cup {listings[idx].id}
         /\ UNCHANGED <<cyc_fetched, cyc_left, cyc_failed, url_sent>>
    ELSE IF pc' = "check"
    THEN UNCHANGED cyc_vars
    ELSE CycLeave(FALSE)

\* a dispatch
CycSend ==
    /\ url_sent' =
           IF url_sent[listings[idx].id] < MaxSends
           THEN [url_sent EXCEPT ![listings[idx].id] = @ + 1]
           ELSE url_sent
    /\ UNCHANGED <<cyc_fetched, cyc_left, cyc_failed, url_unseen>>

\* the listing has been marked
CycMark == IF pc' = "check" THEN UNCHANGED cyc_vars ELSE CycLeave(FALSE)

\* the handler of lines 447-448 caught an exception of the store
CycStoreRaises == CycLeave(TRUE)

CycleOnly == UNCHANGED <<run_vars, add_vars, msg_vars, own_vars, env_vars, gone_vars, poll_vars>>

NextCycle ==
    \/ check_load /\ CycLoad /\ CycleOnly
    \/ check_fetch /\ CycFetch /\ CycleOnly
    \/ check_fetch_raises /\ CycFetch /\ CycleOnly
    \/ check_is_seen /\ CycTest /\ CycleOnly
    \/ check_send /\ CycSend /\ CycleOnly
    \/ check_mark /\ CycMark /\ CycleOnly
    \/ checker_sleep /\ UNCHANGED cyc_vars /\ CycleOnly
    \/ \E chat_id \in Chats, u \in Urls \cup {0} :
          cmd_add(chat_id, u) /\ UNCHANGED cyc_vars /\ CycleOnly
    \/ cmd_fetch /\ UNCHANGED cyc_vars /\ CycleOnly
    \/ cmd_fetch_raises /\ UNCHANGED cyc_vars /\ CycleOnly
    \/ cmd_mark /\ UNCHANGED cyc_vars /\ CycleOnly
    \/ \E chat_id \in Chats, f \in 1..MaxFilterId :
          cmd_remove(chat_id, f) /\ UNCHANGED cyc_vars /\ CycleOnly
    \/ \E u \in Urls, c \in Cards : Publish(u, c) /\ UNCHANGED cyc_vars /\ CycleOnly

SpecCycle == InitBot /\ [][NextCycle]_vars

\* the same with a store that can raise sqlite3.Error
NextFault ==
    \/ NextCycle
    \/ check_load_raises /\ CycLoadRaises /\ CycleOnly
    \/ check_store_raises /\ CycStoreRaises /\ CycleOnly
    \/ cmd_store_raises /\ UNCHANGED cyc_vars /\ CycleOnly

SpecFault == InitBot /\ [][NextFault]_vars

(* ----------------------- the loops, scheduled fairly ------------------ *)

\* a step of the checker thread of bot.py or of the run loop of
\* olx_scraper.py, the store's exceptions included
LoopStep ==
    \/ check_load /\ Unobserved
    \/ check_load_raises /\ Unobserved
    \/ check_fetch /\ Unobserved
    \/ check_fetch_raises /\ Unobserved
    \/ check_is_seen /\ Unobserved
    \/ check_send /\ Unobserved
    \/ check_mark /\ Unobserved
    \/ check_store_raises /\ Unobserved
    \/ checker_sleep /\ Unobserved
    \/ process_fetch /\ Unobserved
    \/ process_is_seen /\ Unobserved
    \/ process_send /\ Unobserved
    \/ process_mark /\ Unobserved
    \/ process_store_raises /\ Unobserved
    \/ scraper_sleep /\ Unobserved

\* the command thread and the sellers
OtherStep ==
    \/ \E chat_id \in Chats, u \in Urls \cup {0} : cmd_add(chat_id, u) /\ Unobserved
    \/ cmd_fetch /\ Unobserved
    \/ cmd_fetch_raises /\ Unobserved
    \/ cmd_mark /\ Unobserved
    \/ cmd_store_raises /\ Unobserved
    \/ \E chat_id \in Chats, f \in 1..MaxFilterId :
          cmd_remove(chat_id, f) /\ Unobserved
    \/ \E u \in Urls, c \in Cards : Publish(u, c) /\ Unobserved

NextLoop == LoopStep \/ OtherStep

\* the thread of checker_loop (a daemon thread, main lines 481-482) and the
\* loop of run get the processor again and again
FairSpec == Init /\ [][NextLoop]_vars /\ WF_vars(LoopStep)

(* ------------------------- the store on its own ----------------------- *)

InitStore == prog = "store" /\ BOT_TOKEN = SetToken /\ InitCommon

NextStore ==
    \/ \E i \in ListingIds, title \in Titles, price \in Prices, url \in ListingUrls :
          store_mark(i, title, price, url) /\ Unobserved
    \/ Tick /\ Unobserved

SpecStore == InitStore /\ [][NextStore]_vars

(* ----------------------------- the startup ---------------------------- *)

\* main stands before its first statement
InitMain == prog = "main" /\ BOT_TOKEN \in Tokens /\ InitCommon

MainStep(from, to) ==
    /\ prog = from
    /\ prog' = to
    /\ UNCHANGED <<page, store_vars, checker_vars, cmd_vars, hist_vars>>

\* main without the test of lines 466-468
main_unchecked == MainStep("main", "init")

\* lines 466-477: without a token main returns; with one it deletes the
\* webhook and goes on
main == IF BOT_TOKEN = <<>> THEN MainStep("main", "exit") ELSE MainStep("main", "init")

\* line 479: init_db() creates the tables, which are empty
main_init_db == MainStep("init", "ready")

\* lines 482-486: the checker thread is started, the polling loop runs
main_start == MainStep("ready", "bot")

NextMain ==
    \/ main /\ UNCHANGED cyc_vars /\ CycleOnly
    \/ main_init_db /\ UNCHANGED cyc_vars /\ CycleOnly
    \/ main_start /\ UNCHANGED cyc_vars /\ CycleOnly
    \/ NextCycle

SpecMain == InitMain /\ [][NextMain]_vars

(* ------------------- observer: the owners of a cycle ------------------ *)

\* the cycle is over: nothing of it is kept
OwnNone == cyc_owners' = {} /\ cyc_loaded' = {}

\* get_all_filters returned the rows the registry holds now
OwnLoad ==
    /\ cyc_owners' = {}
    /\ cyc_loaded' =
           IF pc' = "sleep" THEN {}
           ELSE {<<f.chat_id, f.url>> : f \in filter_urls}

\* the page of a filter of the cycle is fetched for its owner
OwnFetch ==
    IF pc' = "sleep" THEN OwnNone
    ELSE /\ cyc_owners' =
                IF pc' = "check"
                   /\ <<chat_urls[pos].chat_id, chat_urls[pos].url>> \in cyc_loaded
                THEN cyc_owners \cup
                     {<<chat_urls[pos].chat_id, i>> :
                         i \in IdsOf(ParseCards(page[chat_urls[pos].url]))}
                ELSE cyc_owners
         /\ UNCHANGED cyc_loaded

\* a step of the checker at a listing
OwnKeep == IF pc' = "sleep" THEN OwnNone ELSE UNCHANGED own_vars

OwnersOnly == UNCHANGED <<run_vars, add_vars, cyc_vars, msg_vars, env_vars, gone_vars, poll_vars>>

OwnSame == UNCHANGED own_vars /\ OwnersOnly

NextOwners ==
    \/ check_load /\ OwnLoad /\ OwnersOnly
    \/ check_fetch /\ OwnFetch /\ OwnersOnly
    \/ check_fetch_raises /\ OwnFetch /\ OwnersOnly
    \/ check_is_seen /\ OwnKeep /\ OwnersOnly
    \/ check_send /\ OwnSame
    \/ check_mark /\ OwnKeep /\ OwnersOnly
    \/ checker_sleep /\ OwnSame
    \/ \E chat_id \in Chats, u \in Urls \cup {0} : cmd_add(chat_id, u) /\ OwnSame
    \/ cmd_fetch /\ OwnSame
    \/ cmd_fetch_raises /\ OwnSame
    \/ cmd_mark /\ OwnSame
    \/ \E chat_id \in Chats, f \in 1..MaxFilterId :
          cmd_remove(chat_id, f) /\ OwnSame
    \/ \E u \in Urls, c \in Cards : Publish(u, c) /\ OwnSame

SpecOwners == InitBot /\ [][NextOwners]_vars

(* --------------------- observer: removed filters ---------------------- *)

\* /remove f of chat_id: the DELETE finds the owner's row with that id
GoneRemove(chat_id, f) ==
    /\ removed' =
           removed \cup
           {<<r.chat_id, r.url>> : r \in {q \in filter_urls : q.id = f /\ q.chat_id = chat_id}}
    /\ UNCHANGED removed_at_load

\* add_filter_url of chat_id for u: a new row ends the removal of the pair
GoneAdd(chat_id, u) ==
    /\ removed' =
           IF filter_urls' # filter_urls THEN removed \ {<<chat_id, u>>} ELSE removed
    /\ UNCHANGED removed_at_load

\* the cycle loads its filters
GoneLoad ==
    /\ removed_at_load' = IF pc' = "sleep" THEN {} ELSE removed
    /\ UNCHANGED removed

\* a step of the cycle
GoneStep ==
    /\ removed_at_load' = IF pc' = "sleep" THEN {} ELSE removed_at_load
    /\ UNCHANGED removed

GoneOnly == UNCHANGED <<run_vars, add_vars, cyc_vars, msg_vars, own_vars, env_vars, poll_vars>>

GoneSame == UNCHANGED gone_vars /\ GoneOnly

NextGone ==
    \/ check_load /\ GoneLoad /\ GoneOnly
    \/ check_fetch /\ GoneStep /\ GoneOnly
    \/ check_fetch_raises /\ GoneStep /\ GoneOnly
    \/ check_is_seen /\ GoneStep /\ GoneOnly
    \/ check_send /\ GoneStep /\ GoneOnly
    \/ check_mark /\ GoneStep /\ GoneOnly
    \/ checker_sleep /\ GoneSame
    \/ \E chat_id \in Chats, u \in Urls \cup {0} :
          cmd_add(chat_id, u) /\ GoneAdd(chat_id, u) /\ GoneOnly
    \/ cmd_fetch /\ GoneSame
    \/ cmd_fetch_raises /\ GoneSame
    \/ cmd_mark /\ GoneSame
    \/ \E chat_id \in Chats, f \in 1..MaxFilterId :
          cmd_remove(chat_id, f) /\ GoneRemove(chat_id, f) /\ GoneOnly
    \/ \E u \in Urls, c \in Cards : Publish(u, c) /\ GoneSame

SpecGone == InitBot /\ [][NextGone]_vars

(* ----------------------- observer: failed fetches --------------------- *)

\* the cycle begins: no fetch of it has failed
FetchNone == cyc_failed' = FALSE

\* a fetch of url u: it failed if the page has listings and none came
FetchOf(u) == cyc_failed' = (cyc_failed \/ (ParseCards(page[u]) # <<>> /\ pc' # "check"))

FetchOnly ==
    UNCHANGED <<run_vars, add_vars, msg_vars, own_vars, env_vars, gone_vars, poll_vars, cyc_fetched,
                cyc_left, url_unseen, url_sent>>

FetchSame == UNCHANGED cyc_failed /\ FetchOnly

NextFetch ==
    \/ check_load /\ FetchNone /\ FetchOnly
    \/ check_fetch /\ FetchOf(chat_urls[pos].url) /\ FetchOnly
    \/ check_fetch_raises /\ FetchOf(chat_urls[pos].url) /\ FetchOnly
    \/ check_is_seen /\ FetchSame
    \/ check_send /\ FetchSame
    \/ check_mark /\ FetchSame
    \/ checker_sleep /\ FetchSame
    \/ \E chat_id \in Chats, u \in Urls \cup {0} : cmd_add(chat_id, u) /\ FetchSame
    \/ cmd_fetch /\ FetchSame
    \/ cmd_fetch_raises /\ FetchSame
    \/ cmd_mark /\ FetchSame
    \/ \E chat_id \in Chats, f \in 1..MaxFilterId :
          cmd_remove(chat_id, f) /\ FetchSame
    \/ process_fetch /\ (cyc_failed' = (ParseCards(page[ScraperUrl]) # <<>> /\ pc' # "check"))
          /\ FetchOnly
    \/ process_is_seen /\ FetchSame
    \/ process_send /\ FetchSame
    \/ process_mark /\ FetchSame
    \/ scraper_sleep /\ FetchSame
    \/ \E u \in Urls, c \in Cards : Publish(u, c) /\ FetchSame

SpecFetch == Init /\ [][NextFetch]_vars

(* ----------------------- the command surface -------------------------- *)

\* str.strip(): the spaces at both ends go
RECURSIVE LStrip(_)
LStrip(s) == IF s # <<>> /\ Head(s) = " " THEN LStrip(Tail(s)) ELSE s

RECURSIVE RStrip(_)
RStrip(s) ==
    IF s # <<>> /\ s[Len(s)] = " " THEN RStrip(SubSeq(s, 1, Len(s) - 1)) ELSE s

Strip(s) == RStrip(LStrip(s))

\* text[n:]
Drop(s, n) == SubSeq(s, n + 1, Len(s))

DecimalChars == <<"0", "1", "2", "3", "4", "5", "6", "7", "8", "9">>

\* int(id_str) does not raise ValueError (for texts of decimal digits and
\* other characters; signs and underscores are not among the messages)
IsInt(s) == s # <<>> /\ \A k \in 1..Len(s) : \E d \in 1..10 : DecimalChars[d] = s[k]

\* int(id_str)
RECURSIVE ToInt(_)
ToInt(s) ==
    IF s = <<>> THEN 0
    ELSE 10 * ToInt(SubSeq(s, 1, Len(s) - 1))
         + (CHOOSE d \in 0..9 : DecimalChars[d + 1] = s[Len(s)])

AddCmd == <<"/", "a", "d", "d">>
RemoveCmd == <<"/", "r", "e", "m", "o", "v", "e">>

\* the messages users send
AddText(u) == AddCmd \o <<" ">> \o UrlText(u)
RemoveText(f) == RemoveCmd \o <<" ", Digit[f]>>

Messages ==
    {AddText(u) : u \in Urls \cup {0}} \cup {UrlText(u) : u \in Urls \cup {0}}
    \cup {RemoveText(f) : f \in 1..MaxFilterId}
    \cup {AddCmd, RemoveCmd \o <<" ", "x">>}

\* the filter url a text names (the registry of the model keeps the url's
\* number in place of its text)
UrlOf(t) == CHOOSE u \in Urls \cup {0} : UrlText(u) = t

\* handle_message answers and changes nothing
cmd_reply ==
    /\ prog = "bot"
    /\ cpc = "idle"
    /\ UNCHANGED base_vars

\* handle_message, lines 283-354, for the texts that are not /start, /help
\* or /list
handle_message(chat_id, text) ==
    LET t == Strip(text)
    IN IF StartsWith(t, AddCmd)
       THEN LET url == Strip(Drop(t, 4))
            IN IF url # <<>> THEN cmd_add(chat_id, UrlOf(url)) ELSE cmd_reply
       ELSE IF StartsWith(t, RemoveCmd)
       THEN LET id_str == Strip(Drop(t, 7))
            IN IF id_str = <<>> THEN cmd_reply
               ELSE IF IsInt(id_str) THEN cmd_remove(chat_id, ToInt(id_str))
               ELSE cmd_reply
       ELSE IF StartsWith(t, BASE_URL)
       THEN cmd_add(chat_id, UrlOf(t))
       ELSE cmd_reply

\* observer: the message of this step
MsgHandled(chat_id, text) == last_msg' = [chat_id |-> chat_id, text |-> text]

\* observer: this step handled no message
MsgNone == last_msg' = NoMsg

CmdOnly == UNCHANGED <<run_vars, add_vars, cyc_vars, own_vars, env_vars, gone_vars, poll_vars>>

\* the polling loop's thread beside the sellers of the site (the checker
\* thread writes neither the registry nor the locals of the handlers)
NextCmd ==
    \/ \E chat_id \in Chats, text \in Messages :
          handle_message(chat_id, text) /\ MsgHandled(chat_id, text) /\ CmdOnly
    \/ cmd_fetch /\ MsgNone /\ CmdOnly
    \/ cmd_fetch_raises /\ MsgNone /\ CmdOnly
    \/ cmd_mark /\ MsgNone /\ CmdOnly
    \/ \E u \in Urls, c \in Cards : Publish(u, c) /\ MsgNone /\ CmdOnly

SpecCmd == InitBot /\ [][NextCmd]_vars

(* --------------------------- polling_loop ----------------------------- *)

\* the texts of the updates that come in; <<>> is an update without a text
PollTexts == {<<>>, AddText(1), RemoveText(1)}

\* a user sends something to the bot: the server queues an update
Arrive(chat_id, text) ==
    /\ prog = "bot"
    /\ next_uid <= MaxUpdates
    /\ updates' = Append(updates, [update_id |-> next_uid, chat_id |-> chat_id,
                                   text |-> text])
    /\ next_uid' = next_uid + 1
    /\ UNCHANGED <<last_update_id, batch, ppc, handled, poll_failed>>
    /\ UNCHANGED base_vars

\* getUpdates with this offset: the updates from the offset on; those below
\* it are confirmed and gone
Pending(offset) == SelectSeq(updates, LAMBDA upd : upd.update_id >= offset)

\* lines 384-391: getUpdates(offset = last_update_id + 1) answers with the
\* first n of the pending updates (none when the long poll times out)
poll_get ==
    /\ prog = "bot"
    /\ ppc = "get"
    /\ updates' = Pending(last_update_id + 1)
    /\ \E n \in 0..Len(Pending(last_update_id + 1)) :
          batch' = SubSeq(Pending(last_update_id + 1), 1, n)
    /\ ppc' = "next"
    /\ UNCHANGED <<next_uid, last_update_id, handled, poll_failed>>
    /\ UNCHANGED base_vars

\* lines 384-390 and 404-406: the request raises (the pause follows), or the
\* response is not ok (the loop asks again)
poll_get_fails ==
    /\ prog = "bot"
    /\ ppc = "get"
    /\ updates' \in {updates, Pending(last_update_id + 1)}
    /\ ppc' \in {"get", "pause"}
    /\ batch' = <<>>
    /\ UNCHANGED <<next_uid, last_update_id, handled, poll_failed>>
    /\ UNCHANGED base_vars

\* the loop of line 392 with the offset left as it is
poll_next_unacked ==
    /\ prog = "bot"
    /\ ppc = "next"
    /\ IF batch = <<>>
       THEN ppc' = "get" /\ UNCHANGED <<batch, last_update_id>>
       ELSE /\ UNCHANGED last_update_id
            /\ IF Head(batch).text # <<>>
               THEN ppc' = "handle" /\ UNCHANGED batch
               ELSE ppc' = "next" /\ batch' = Tail(batch)
    /\ UNCHANGED <<updates, next_uid, handled, poll_failed>>
    /\ UNCHANGED base_vars

\* lines 392-400: the next update of the result; last_update_id takes its
\* id, and an update without a text is passed over
poll_next ==
    /\ prog = "bot"
    /\ ppc = "next"
    /\ IF batch = <<>>
       THEN ppc' = "get" /\ UNCHANGED <<batch, last_update_id>>
       ELSE /\ last_update_id' = Head(batch).update_id
            /\ IF Head(batch).text # <<>>
               THEN ppc' = "handle" /\ UNCHANGED batch
               ELSE ppc' = "next" /\ batch' = Tail(batch)
    /\ UNCHANGED <<updates, next_uid, handled, poll_failed>>
    /\ UNCHANGED base_vars

\* line 402: handle_message(chat_id, text)
poll_handle ==
    /\ ppc = "handle"
    /\ handle_message(Head(batch).chat_id, Head(batch).text)
    /\ handled' = Append(handled, Head(batch).update_id)
    /\ ppc' = "run"
    /\ UNCHANGED <<updates, next_uid, last_update_id, batch, poll_failed>>

\* lines 404-406: except Exception: logger.error(...); time.sleep(5); the
\* rest of the result is dropped
on_poll_error ==
    /\ poll_failed' = poll_failed \cup {last_update_id}
    /\ batch' = <<>>
    /\ ppc' = "pause"

\* line 402 when handle_message raises before it has written anything
poll_handle_raises ==
    /\ prog = "bot"
    /\ ppc = "handle"
    /\ cpc = "idle"
    /\ handled' = Append(handled, Head(batch).update_id)
    /\ on_poll_error
    /\ UNCHANGED <<updates, next_uid, last_update_id>>
    /\ UNCHANGED base_vars

\* handle_message is inside add_filter_url
PollRun ==
    /\ ppc = "run"
    /\ UNCHANGED poll_vars

\* add_filter_url raised: the exception reaches polling_loop
PollRunRaises ==
    /\ ppc = "run"
    /\ on_poll_error
    /\ UNCHANGED <<updates, next_uid, last_update_id, handled>>

\* handle_message has returned: the loop of line 392 goes on
poll_done ==
    /\ prog = "bot"
    /\ ppc = "run"
    /\ cpc = "idle"
    /\ batch' = Tail(batch)
    /\ ppc' = "next"
    /\ UNCHANGED <<updates, next_uid, last_update_id, handled, poll_failed>>
    /\ UNCHANGED base_vars

\* line 406: time.sleep(5) is over, the while loop goes round
poll_resume ==
    /\ prog = "bot"
    /\ ppc = "pause"
    /\ ppc' = "get"
    /\ UNCHANGED <<updates, next_uid, last_update_id, batch, handled, poll_failed>>
    /\ UNCHANGED base_vars

PollOnly ==
    UNCHANGED <<run_vars, add_vars, cyc_vars, msg_vars, own_vars, env_vars, gone_vars>>

NextPoll ==
    \/ \E chat_id \in Chats, text \in PollTexts : Arrive(chat_id, text) /\ PollOnly
    \/ poll_get /\ PollOnly
    \/ poll_get_fails /\ PollOnly
    \/ poll_next /\ PollOnly
    \/ poll_handle /\ PollOnly
    \/ poll_handle_raises /\ PollOnly
    \/ cmd_fetch /\ PollRun /\ PollOnly
    \/ cmd_mark /\ PollRun /\ PollOnly
    \/ cmd_fetch_raises /\ PollRunRaises /\ PollOnly
    \/ poll_done /\ PollOnly
    \/ poll_resume /\ PollOnly
    \/ \E u \in Urls, c \in Cards :
          Publish(u, c) /\ UNCHANGED poll_vars /\ PollOnly

SpecPoll == InitBot /\ [][NextPoll]_vars

(* ------------------------------ properties ---------------------------- *)

RunEnded == pc = "sleep" /\ quiet >= 1

\* one dispatch for each listing that was unseen and on a watched page
FirstRunOk ==
    \A i \in ListingIds : cyc_sent[i] = IF i \in cyc_new \cap OnPages THEN 1 ELSE 0

\* no dispatch at all
SecondRunOk == \A i \in ListingIds : cyc_sent[i] = 0

C3_FailedDispatchNotMarked ==
    [][(prog = "bot" /\ pc = "mark" /\ ~send_ok /\ pc' # "mark")
         => seen_listings' = seen_listings]_vars

\* C4: no notification is ever dispatched for a listing that was on the
\* filter's page when add_filter_url created the filter (and had not been
\* notified before), whatever the checker thread does meanwhile.
C4_BacklogNeverNotified ==
    prog = "bot" => \A i \in backlog : notified[i] = <<>>

C6_CycleSurvivesFailure ==
    prog = "bot" =>
        /\ pc = "sleep" => cyc_left = 0
        /\ pc \in {"check", "mark"} =>
              \A i \in ListingIds : url_sent[i] = IF i \in url_unseen THEN 1 ELSE 0

\* the first url of the cycle failed and a listing of the second has been
\* dispatched
C6_Witness ==
    /\ prog = "bot"
    /\ pc = "mark"
    /\ pos = 2
    /\ cyc_failed
    /\ url_sent[listings[idx].id] = 1

\* C7: the loop (checker_loop, and run of olx_scraper.py) never ends, and
\* it begins a new round again and again, also after a round that raised.
C7_LoopNeverEnds == [](pc # "dead") /\ []<>(pc = "load")

\* a round of the bot's checker raised, and the loop is at the start of the
\* next one
C7_Witness ==
    /\ prog = "bot"
    /\ raised
    /\ pc = "load"
    /\ filter_urls # {}

\* C8: a listing that came onto the page of a filter in place is notified
\* in the end.  Dispatch needs the is_seen test to fail, and rows are never
\* deleted, so the listing must be notified already, or still unseen, or
\* past the test and at its dispatch.
C8_LateListingNotLost ==
    prog = "bot" =>
        \A o \in late :
            \/ ~is_seen(seen_listings, o[1])
            \/ pc = "send" /\ listings[idx].id = o[1]

\* C9: is_seen(X) is false until the first mark_seen(X) has returned and
\* true from then on; the set of seen ids only grows.
C9_SeenAfterMark ==
    \A i \in ListingIds : is_seen(seen_listings, i) <=> i \in marked

\* the checker is about to test a listing that was marked, while another
\* listing has never been marked
C9_Witness ==
    /\ pc = "check"
    /\ listings[idx].id \in marked
    /\ ListingIds \ marked # {}

\* C10: mark_seen is idempotent: one row per listing_id, with the title,
\* price, url and first_seen of the first call.
C10_FirstCallKept ==
    /\ seen_listings = first_call
    /\ \A i \in ListingIds : Cardinality({r \in seen_listings : r.listing_id = i}) <= 1

\* mark_seen was called again, later and with another title and price, for
\* a listing that has a row
C10_Witness ==
    /\ prog = "store"
    /\ c_listings # <<>>
    /\ \E r \in seen_listings :
          /\ r.listing_id = c_listings[1].id
          /\ r.title # c_listings[1].title
          /\ r.price # c_listings[1].price
          /\ r.first_seen < now

\* no two rows of filter_urls have the same (chat_id, url)
FilterPairsUnique ==
    \A r \in filter_urls, q \in filter_urls :
        (r.chat_id = q.chat_id /\ r.url = q.url) => r = q

\* the step handled a message of chat_id that asks to add url u
AddAsked(chat_id, u) ==
    /\ last_msg'.chat_id = chat_id
    /\ last_msg'.text \in {AddText(u), UrlText(u)}

\* C11: no two filter rows ever have the same (owner, url); an add of a pair
\* that is registered fails and leaves the registry as it is, an add of a
\* pair that is not registered succeeds with one new row, whatever rows other
\* owners have for that url.
C11_UniqueFilters ==
    /\ []FilterPairsUnique
    /\ [][\A chat_id \in Chats, u \in Urls :
             AddAsked(chat_id, u) =>
                 IF \E r \in filter_urls : r.chat_id = chat_id /\ r.url = u
                 THEN filter_urls' = filter_urls
                 ELSE filter_urls' =
                          filter_urls \cup
                          {[id |-> last_id + 1, chat_id |-> chat_id, url |-> u]}]_vars

\* two owners have a filter on the same url, and the add one of them just
\* asked for again was refused
C11_Witness ==
    /\ cpc = "idle"
    /\ \E r \in filter_urls, q \in filter_urls :
          /\ r.url = q.url
          /\ r.chat_id # q.chat_id
          /\ last_msg.chat_id = r.chat_id
          /\ last_msg.text \in {AddText(r.url), UrlText(r.url)}

\* the step handled the message "/remove f" of chat_id
RemoveAsked(chat_id, f) ==
    /\ last_msg'.chat_id = chat_id
    /\ last_msg'.text = RemoveText(f)

\* C12: remove(owner, filter_id) returns true exactly when it deleted one
\* row, a row of the calling owner with that id; otherwise it returns false
\* and the registry is as before; the filters every other owner lists are
\* the same after the call in both cases.
C12_RemoveOwnRowOnly ==
    [][\A chat_id \in Chats, f \in 1..MaxFilterId :
          RemoveAsked(chat_id, f) =>
              /\ IF remove_filter_found(filter_urls, chat_id, f)
                 THEN \E r \in filter_urls :
                         /\ r.id = f
                         /\ r.chat_id = chat_id
                         /\ filter_urls' = filter_urls \ {r}
                 ELSE /\ filter_urls' = filter_urls
                      /\ get_all_filters(filter_urls') = get_all_filters(filter_urls)
              /\ \A b \in Chats \ {chat_id} :
                    get_filters(filter_urls', b) = get_filters(filter_urls, b)]_vars

\* an owner has just asked to remove the filter of another owner, and that
\* filter is still listed for its owner
C12_Witness ==
    \E r \in filter_urls :
        /\ last_msg.chat_id \in Chats \ {r.chat_id}
        /\ last_msg.text = RemoveText(r.id)
        /\ get_filters(filter_urls, r.chat_id)[1] = r

\* the messages that ask for a filter on a url that does not begin with
\* BASE_URL
ForeignAdds == {t \in {AddText(0), UrlText(0)} : ~StartsWith(UrlText(0), BASE_URL)}

\* C13: an add, by "/add <url>" or by a bare url, of a url that does not
\* begin with https://www.olx.uz changes neither the registry nor the seen
\* store and starts no fetch; every filter row has a url that begins with
\* that origin.
C13_ForeignUrlRejected ==
    /\ [](\A r \in filter_urls : StartsWith(UrlText(r.url), BASE_URL))
    /\ [][last_msg'.text \in ForeignAdds =>
             /\ filter_urls' = filter_urls
             /\ last_id' = last_id
             /\ seen_listings' = seen_listings
             /\ cpc' = "idle"]_vars

\* "/add https://olx.kz" has just been handled, with a filter in place and
\* a listing on the site
C13_Witness ==
    /\ last_msg.text = AddText(0)
    /\ filter_urls # {}
    /\ OnSite # {}
    /\ cpc = "idle"

\* a listing dict carries the identifier its url gives, and there is one
HasOwnId(l) == l.id # NoId /\ l.id = extract_listing_id(l.url)

\* C14: an item whose link has no -ID<token>.html is in no parsed sequence,
\* so it is never tested, dispatched or marked: every listing a fetch
\* returned, and so every listing at its dispatch, and every row of
\* seen_listings carries the non-empty identifier extracted from its url.
C14_NoIdDiscarded ==
    /\ \A k \in 1..Len(listings) : HasOwnId(listings[k])
    /\ \A k \in 1..Len(c_listings) : HasOwnId(c_listings[k])
    /\ \A r \in seen_listings :
          r.listing_id # NoId /\ r.listing_id = extract_listing_id(r.url)

\* the page fetched began with an item without identifier; the one listing
\* parsed from it has been dispatched
C14_Witness ==
    /\ prog = "bot"
    /\ pc = "mark"
    /\ Len(page[chat_urls[pos].url]) = 2
    /\ page[chat_urls[pos].url][1] = 0
    /\ Len(listings) = 1

\* the checker's fetch of a url whose page has listings gave none
BotFetchFailed ==
    /\ prog = "bot"
    /\ pc = "fetch"
    /\ ParseCards(page[chat_urls[pos].url]) # <<>>
    /\ pc' = "sleep" \/ pos' = pos + 1

\* the fetch of process_listings gave none of the listings of the page
ScraperFetchFailed ==
    /\ prog = "scraper"
    /\ pc = "load"
    /\ ParseCards(page[ScraperUrl]) # <<>>
    /\ pc' = "sleep"

\* nothing is dispatched, marked or registered in this step
NothingWritten ==
    /\ seen_listings' = seen_listings
    /\ filter_urls' = filter_urls
    /\ notified' = notified
    /\ marked' = marked

\* C15: a fetch that fails in transport counts as zero listings for that url
\* in that cycle: the step dispatches nothing, marks nothing and leaves the
\* registry and the seen store alone; no exception leaves fetch_listings (the
\* cycle goes on with the next url, the scraper's run is not left through
\* the handler of an exception).
C15_FailedFetchIsEmpty ==
    [][/\ BotFetchFailed =>
             /\ NothingWritten
             /\ raised' = raised
             /\ IF pos < Len(chat_urls)
                THEN pc' = "fetch" /\ pos' = pos + 1 /\ chat_urls' = chat_urls
                ELSE pc' = "sleep"
       /\ ScraperFetchFailed => NothingWritten /\ raised' = FALSE]_vars

\* the fetch of the first url of the cycle failed, nothing has been
\* dispatched or marked, and the cycle is at its second url
C15_Witness ==
    /\ prog = "bot"
    /\ cyc_failed
    /\ pc = "fetch"
    /\ pos = 2
    /\ seen_listings = {}
    /\ \A i \in ListingIds : notified[i] = <<>>

\* C16: with an empty access token main returns at once: init_db is not
\* reached, neither the checker thread nor the polling loop is started, and
\* nothing is ever fetched, dispatched or written to the store.
C16_NoTokenNoStart ==
    BOT_TOKEN = <<>> =>
        /\ prog \in {"main", "exit"}
        /\ filter_urls = {}
        /\ seen_listings = {}
        /\ last_id = 0
        /\ marked = {}
        /\ \A i \in ListingIds : notified[i] = <<>>
        /\ pc = "load"
        /\ cpc = "idle"
        /\ chat_urls = <<>>
        /\ listings = <<>>
        /\ c_listings = <<>>

\* main has returned for want of a token while the site has listings
C16_Witness ==
    /\ BOT_TOKEN = <<>>
    /\ prog = "exit"
    /\ \E u \in Urls : ParseCards(page[u]) # <<>>

\* the checker is at a listing of the current url
AtListing == prog = "bot" /\ pc \in {"check", "send", "mark"}

\* C17: within one url of one cycle the listings are handled in the order
\* the parser gave them, each by is_seen, then the dispatch, then mark_seen;
\* the mark of a listing is in the store before the next listing is tested,
\* so an id that occurs twice in the parsed sequence is notified once.
C17_OneListingAtATime ==
    /\ [](AtListing =>
            /\ \A k \in 1..(idx - 1) : is_seen(seen_listings, listings[k].id)
            /\ \A i \in ListingIds : url_sent[i] <= 1)
    /\ [][/\ (prog = "bot" /\ pc = "fetch" /\ pc' = "check") =>
                /\ listings' = ParseCards(page[chat_urls[pos].url])
                /\ idx' = 1
          /\ (AtListing /\ AtListing') =>
                /\ listings' = listings
                /\ pos' = pos
                /\ idx' \in {idx, idx + 1}
                /\ idx' = idx + 1 => pc' = "check" /\ pc \in {"check", "mark"}
                /\ pc' = "send" => pc \in {"check", "send"}
                /\ pc' = "mark" => pc \in {"send", "mark"}
          /\ url_sent' # url_sent /\ url_sent' # NoSends =>
                /\ pc = "send"
                /\ listings[idx].id \in url_unseen
                /\ pc' = "mark"
          /\ (prog = "bot" /\ pc = "mark" /\ pc' # "mark") =>
                is_seen(seen_listings', listings[idx].id)]_vars

\* the parsed sequence holds an id twice; its first occurrence was
\* dispatched and marked, the second is about to be tested
C17_Witness ==
    /\ prog = "bot"
    /\ pc = "check"
    /\ idx = 2
    /\ listings[1].id = listings[2].id
    /\ url_sent[listings[1].id] = 1
    /\ is_seen(seen_listings, listings[2].id)

\* the receiver of the dispatch this step adds to the history of listing i
Receiver(i) == notified'[i][Len(notified'[i])]

\* C18: every notification of a cycle goes to an owner who, in the filter
\* set the cycle loaded at its start, had a filter whose page as fetched in
\* this cycle showed the listing; no owner is notified of a listing that
\* only the pages of other owners show.
C18_OwnersOfThePage ==
    [][\A i \in ListingIds :
          notified'[i] # notified[i] => <<Receiver(i), i>> \in cyc_owners]_vars

\* the cycle loaded filters of both owners; a listing that only the page of
\* the second owner's filter showed has gone to the second owner alone
C18_Witness ==
    /\ prog = "bot"
    /\ pc = "mark"
    /\ {o[1] : o \in cyc_loaded} = Chats
    /\ \E i \in ListingIds :
          /\ notified[i] = <<2>>
          /\ <<2, i>> \in cyc_owners
          /\ <<1, i>> \notin cyc_owners

\* C19: olx_scraper.py marks a listing seen only after send_message returned
\* true for it in the same run; when send_message returns false the listing
\* stays unseen, so that the next run dispatches it again, and the run goes
\* on with the listings that remain.
C19_MarkOnlyAfterAccept ==
    [][prog = "scraper" =>
          /\ seen_listings' # seen_listings =>
                /\ pc = "mark"
                /\ send_ok
                /\ SeenIds' = SeenIds \cup {listings[idx].id}
          /\ (pc = "send" /\ pc' # "send" /\ send_ok') => pc' = "mark"
          /\ (pc = "send" /\ pc' # "send" /\ ~send_ok') =>
                /\ seen_listings' = seen_listings
                /\ ~is_seen(seen_listings', listings[idx].id)
                /\ IF idx < Len(listings)
                   THEN pc' = "check" /\ idx' = idx + 1 /\ listings' = listings
                   ELSE pc' = "sleep"]_vars

\* a listing that was refused in an earlier run is still unseen and is about
\* to be dispatched again
C19_Witness ==
    /\ prog = "scraper"
    /\ pc = "send"
    /\ ~send_ok
    /\ notified[listings[idx].id] = <<ScraperChat>>
    /\ ~is_seen(seen_listings, listings[idx].id)

\* C20: an add that fails because the (owner, url) pair is registered changes
\* nothing: the registry keeps its rows, no page is fetched and no listing is
\* marked seen; the backlog is fetched and marked only after an add that
\* created a row.
C20_FailedAddChangesNothing ==
    /\ [](cpc # "idle" =>
            [id |-> last_id, chat_id |-> c_chat, url |-> c_url] \in filter_urls)
    /\ [][/\ \A chat_id \in Chats, u \in Urls :
                (AddAsked(chat_id, u)
                 /\ \E r \in filter_urls : r.chat_id = chat_id /\ r.url = u) =>
                    /\ filter_urls' = filter_urls
                    /\ last_id' = last_id
                    /\ seen_listings' = seen_listings
                    /\ marked' = marked
                    /\ cpc' = "idle"
                    /\ c_listings' = c_listings
          /\ seen_listings' # seen_listings => cpc = "mark"]_vars

\* an owner asked again for a filter they have, while its page shows a
\* listing that is not in the seen store: the add was refused and the
\* listing is still unseen
C20_Witness ==
    /\ cpc = "idle"
    /\ \E r \in filter_urls :
          /\ last_msg.chat_id = r.chat_id
          /\ last_msg.text \in {AddText(r.url), UrlText(r.url)}
          /\ \E i \in IdsOf(ParseCards(page[r.url])) : ~is_seen(seen_listings, i)

\* the filter the checker is at
FilterAt(k) == <<chat_urls[k].chat_id, chat_urls[k].url>>

\* C21: once a /remove of an owner has deleted a filter, no cycle that loads
\* its filters after that works for the removed filter, so that no dispatch
\* of such a cycle is made on its behalf; a removal leaves the seen store as
\* it is, and the store never loses an id, so what was marked seen for the
\* filter is seen when the filter is added again.
C21_RemovedFilterIsSilent ==
    /\ [](prog = "bot" =>
            \A k \in 1..Len(chat_urls) : FilterAt(k) \notin removed_at_load)
    /\ [][/\ \A i \in ListingIds :
                notified'[i] # notified[i] =>
                    /\ pc = "send"
                    /\ Receiver(i) = chat_urls[pos].chat_id
                    /\ i \in IdsOf(listings)
                    /\ FilterAt(pos) \notin removed_at_load
          /\ Cardinality(filter_urls') < Cardinality(filter_urls) =>
                seen_listings' = seen_listings
          /\ SeenIds \subseteq SeenIds']_vars

\* a cycle that loaded its filters after a removal is dispatching for
\* another filter, while the page of the removed filter shows a listing
\* that has never been dispatched and is not seen
C21_Witness ==
    /\ prog = "bot"
    /\ pc = "send"
    /\ \E o \in removed_at_load :
          /\ o \in removed
          /\ \E i \in IdsOf(ParseCards(page[o[2]])) :
                /\ i # listings[idx].id
                /\ notified[i] = <<>>
                /\ ~is_seen(seen_listings, i)

\* C22: polling_loop calls handle_message at most once for an update and in
\* the order the updates came; last_update_id never decreases and has an
\* update's id before handle_message is called for it; after a handling that
\* raised the loop pauses and asks again, for the updates after that one.
C22_UpdatesInOrderOnce ==
    /\ [](\A j \in 1..Len(handled), k \in 1..Len(handled) :
             j < k => handled[j] < handled[k])
    /\ [](\A k \in 1..Len(batch) :
             IF ppc \in {"handle", "run"} /\ k = 1
             THEN batch[k].update_id = last_update_id
             ELSE batch[k].update_id > last_update_id)
    /\ [][/\ last_update_id' >= last_update_id
          /\ handled' # handled =>
                /\ handled' = Append(handled, last_update_id)
                /\ last_update_id' = last_update_id
          /\ poll_failed' # poll_failed =>
                /\ ppc' = "pause"
                /\ last_update_id' = last_update_id
                /\ last_update_id \in poll_failed'
          /\ (ppc = "pause" /\ ppc' # "pause") => ppc' = "get"
          /\ (ppc = "get" /\ ppc' = "next") =>
                \A k \in 1..Len(batch') :
                    /\ batch'[k].update_id > last_update_id
                    /\ \A f \in poll_failed : batch'[k].update_id > f]_vars

\* the handling of an update raised, and the loop has gone on to handle an
\* update that came after it
C22_Witness ==
    /\ Len(handled) >= 2
    /\ \E k \in 1..(Len(handled) - 1) : handled[k] \in poll_failed
    /\ ppc = "run"

====
